---- MODULE Spec2Model ----
(***************************************************************************)
(* Slide-change detection of video2ppt: capture_slides_from_video          *)
(* (src/video_audio_processor.py) and the GUI thread that starts and stops *)
(* it (VideoAudioProcessor.capture_slides / stop_capture).                 *)
(* The clamping of the crop region is also run on its own (CropSpec), with *)
(* that of ChromeCapture.capture_loop (src/chrome_capture.py).             *)
(*                                                                         *)
(* Units.  Similarities are in thousandths (0.85 is 850).  Times are in    *)
(* frames: a time of t seconds is t * fps, so current_time = frame_idx/fps *)
(* is held as frame_idx.  sample_interval and playback_speed are in tenths *)
(* (1.0 is 10).  Frames are abstract images: what the code reads of an     *)
(* image is its structural similarity to another image, the correlation of *)
(* their histograms, and its count of pixels brighter than 20.             *)
(***************************************************************************)
EXTENDS Integers, Sequences, FiniteSets, TLC

VARIABLES
    \* the arguments of capture_slides_from_video and the opened video
    video, fps, frame_count, similarity_threshold, stability_threshold,
    sample_interval, playback_speed, use_fast_mode, crop_region, stop_flag,
    \* the shape of the decoded frames and of frame[y:y+h, x:x+w]
    frame_shape, cropped_frame,
    \* the screen mode of Video2PPT (src/video2ppt.py): its flags, its
    \* capture_screen threads, the callbacks waiting in the Tk main loop
    live,
    \* who called it: "capture_slides" (the GUI thread) or "direct"
    launched_by,
    \* the locals of capture_slides_from_video
    pc, frame_idx, prev_frame, saved_count, last_saved_time, stable_frames,
    last_saved_slide, saved_slides, should_replace, should_replace_bound,
    result,
    \* VideoAudioProcessor.stop_capture_flag
    stop_capture_flag,
    \* observation only: the image files of the output folder (disk[i+1] is
    \* slide_<i>.png), the slide index under which each entry of saved_slides
    \* was first saved, and what the last evaluated frame led to
    disk, origin, event

vars == <<video, fps, frame_count, similarity_threshold, stability_threshold,
          sample_interval, playback_speed, use_fast_mode, crop_region,
          stop_flag, launched_by, pc, frame_idx, prev_frame, saved_count,
          last_saved_time, stable_frames, last_saved_slide, saved_slides,
          should_replace, should_replace_bound, result, stop_capture_flag,
          disk, origin, event, frame_shape, cropped_frame, live>>

config == <<video, fps, frame_count, similarity_threshold,
            stability_threshold, sample_interval, playback_speed,
            use_fast_mode, crop_region, stop_flag, launched_by,
            frame_shape, cropped_frame, live>>

----------------------------------------------------------------------------
(* Bounds of the model *)

\* samples of a video whose frames are chosen freely
MaxSamples == 5
\* samples of a video that shows one image throughout
StaticSamples == 8
\* slides of a slide-deck video (enough to overflow the history)
DeckSlides == 53
\* samples for which a slide-deck video shows each slide
DeckDwell == 3
\* size of the decoded frames
FrameWidth == 64
FrameHeight == 48
\* capture_screen threads started in a run of Video2PPT, and changes of
\* what the screen shows
MaxThreads == 2
MaxScreens == 1
\* largest side of the frames the clamping is tried on, and how far beyond
\* the frame, either way, the requested regions reach
MaxSide == 3
Overhang == 1

(* Constants of the program *)

HistoryCap == 50           \* if len(saved_slides) > 50
CompareWindow == 20        \* min(20, len(saved_slides))
ReplaceSimilarity == 850   \* global_similarity > 0.85
DuplicateSimilarity == 950 \* global_similarity > 0.95
HistCut == 700             \* hist_corr < 0.7
SmallCut == 900            \* small_ssim > 0.9
WinSize == 7               \* structural_similarity's default window
InitialLastSaved == 1000   \* last_saved_time = -1000

----------------------------------------------------------------------------
(* Images *)

Img(s, b, n) == [slide |-> s, build |-> b, noise |-> n]

\* None, for prev_frame and last_saved_slide
NoFrame == Img(-1, 0, 0)

Abs(x) == IF x < 0 THEN -x ELSE x
Max(a, b) == IF a > b THEN a ELSE b
Min(a, b) == IF a < b THEN a ELSE b

\* np.count_nonzero(img > 20): slides alternate between busy and sparse, each
\* build of a slide reveals 40% of the base content more, noise adds a pixel
count_nonzero(img) ==
    (((IF img.slide % 2 = 0 THEN 100 ELSE 50) * (10 + 4 * img.build)) \div 10)
        + img.noise

\* structural similarity of two images of the same (full) size
SsimFull(a, b) ==
    IF a = b THEN 1000
    ELSE IF a.slide # b.slide THEN 500
    ELSE IF a.build = b.build THEN 970
    ELSE IF Abs(a.build - b.build) = 1 THEN 900
    ELSE 800

\* structural similarity of the two images resized to a quarter
SsimQuarter(a, b) ==
    IF a = b THEN 1000
    ELSE IF a.slide # b.slide THEN 520
    ELSE IF a.build = b.build THEN 985
    ELSE IF Abs(a.build - b.build) = 1 THEN 930
    ELSE 820

\* cv2.compareHist(..., HISTCMP_CORREL) of the two histograms
compareHist(a, b) ==
    IF a = b THEN 1000
    ELSE IF a.slide # b.slide
         THEN (IF a.build = b.build THEN 600 ELSE 750)
    ELSE IF a.build = b.build THEN 995
    ELSE IF Abs(a.build - b.build) = 1 THEN 900
    ELSE 800

Ok(v) == [raised |-> FALSE, value |-> v]
Raise == [raised |-> TRUE, value |-> 0]

\* skimage's structural_similarity on w x h images: ValueError when the
\* window does not fit the image
ssim(img1, img2, w, h, quarter) ==
    IF w < WinSize \/ h < WinSize THEN Raise
    ELSE Ok(IF quarter THEN SsimQuarter(img1, img2) ELSE SsimFull(img1, img2))

\* (mutant) the quarter-size value is returned whenever it is computed
fast_similarity_NoVerify(img1, img2, use_fast, w, h) ==
    IF ~use_fast THEN ssim(img1, img2, w, h, FALSE)
    ELSE LET hist_corr == compareHist(img1, img2)
         IN  IF hist_corr < HistCut THEN Ok((hist_corr * 8) \div 10)
             ELSE IF w \div 4 = 0 \/ h \div 4 = 0 THEN Raise
             ELSE LET small_ssim == ssim(img1, img2, w \div 4, h \div 4, TRUE)
                  IN  IF small_ssim.raised THEN Ok((hist_corr * 8) \div 10)
                      ELSE small_ssim

\* fast_similarity(img1, img2, use_fast) on w x h images.  cv2.resize raises
\* outside the try when a quarter side is 0; the bare except turns a failing
\* structural similarity into hist_corr * 0.8.
fast_similarity(img1, img2, use_fast, w, h) ==
    IF ~use_fast THEN ssim(img1, img2, w, h, FALSE)
    ELSE LET hist_corr == compareHist(img1, img2)
         IN  IF hist_corr < HistCut THEN Ok((hist_corr * 8) \div 10)
             ELSE IF w \div 4 = 0 \/ h \div 4 = 0 THEN Raise
             ELSE LET small_ssim == ssim(img1, img2, w \div 4, h \div 4, TRUE)
                      full_ssim == ssim(img1, img2, w, h, FALSE)
                  IN  IF small_ssim.raised THEN Ok((hist_corr * 8) \div 10)
                      ELSE IF small_ssim.value > SmallCut
                           THEN (IF full_ssim.raised
                                 THEN Ok((hist_corr * 8) \div 10)
                                 ELSE full_ssim)
                      ELSE small_ssim

----------------------------------------------------------------------------
(* Set-up of capture_slides_from_video, before the loop *)

Region(x, y, w, h) == [x |-> x, y |-> y, w |-> w, h |-> h]

\* crop_region = None
NoRegion == [x |-> 0, y |-> 0, w |-> -1, h |-> -1, none |-> TRUE]

\* (mutant) the corner of the region is not brought back into the frame
ClampCrop_SizeOnly(region, frame_width, frame_height) ==
    IF region = NoRegion THEN Region(0, 0, frame_width, frame_height)
    ELSE Region(region.x, region.y, Min(region.w, frame_width - region.x),
                Min(region.h, frame_height - region.y))

\* the clamping of crop_region to the first frame
ClampCrop(region, frame_width, frame_height) ==
    IF region = NoRegion THEN Region(0, 0, frame_width, frame_height)
    ELSE LET x == Max(0, Min(region.x, frame_width - 1))
             y == Max(0, Min(region.y, frame_height - 1))
         IN  Region(x, y, Min(region.w, frame_width - x),
                    Min(region.h, frame_height - y))

\* ChromeCapture.capture_loop: the corners (x1, y1, x2, y2) of self.roi,
\* each brought into 0 .. w-1 and 0 .. h-1; given and returned here as the
\* region (x1, y1, x2 - x1, y2 - y1)
ClampRoi(region, frame_width, frame_height) ==
    LET x1 == Max(0, Min(region.x, frame_width - 1))
        y1 == Max(0, Min(region.y, frame_height - 1))
        x2 == Max(0, Min(region.x + region.w, frame_width - 1))
        y2 == Max(0, Min(region.y + region.h, frame_height - 1))
    IN  Region(x1, y1, x2 - x1, y2 - y1)

\* len(range(n)[start:stop]): a negative bound counts from the end, and
\* both are then brought into 0 .. n
SliceLen(start, stop, n) ==
    LET from == IF start < 0 THEN Max(0, start + n) ELSE Min(start, n)
        to == IF stop < 0 THEN Max(0, stop + n) ELSE Min(stop, n)
    IN  Max(0, to - from)

Shape(w, h) == [w |-> w, h |-> h]

\* no frame has been cropped yet
NoShape == Shape(-1, -1)

\* the shape of frame[y:y+h, x:x+w]; basic slicing does not raise
Slice(region, shape) ==
    Shape(SliceLen(region.x, region.x + region.w, shape.w),
          SliceLen(region.y, region.y + region.h, shape.h))

\* min_stable_frames = max(1, int(fps * 0.5))
min_stable_frames == Max(1, fps \div 2)

\* frame_step = max(1, int(fps * sample_interval * playback_speed))
frame_step == Max(1, (fps * sample_interval * playback_speed) \div 100)

\* (mutant) the interval between slides is not checked
TooSoon_Never(current_time, last_time) == FALSE

\* time_since_last_save < min_time_between_slides, with
\* min_time_between_slides = 2.0 / playback_speed
TooSoon(current_time, last_time) ==
    (current_time - last_time) * playback_speed < 20 * fps

----------------------------------------------------------------------------
(* One iteration of the loop, on the grey cropped frame gray_frame *)

\* (mutant) every frame with a predecessor counts as stable
StabilityCheck_AlwaysStable(prev, gray_frame, stable, w, h) ==
    LET similarity == ssim(prev, gray_frame, w, h, FALSE)
    IN  [is_stable |-> TRUE,
         stable_frames |-> IF prev = NoFrame THEN stable
                           ELSE IF similarity.raised THEN 0
                           ELSE IF similarity.value > stability_threshold
                           THEN stable + 1 ELSE 0]

\* (mutant) a pair at or below the threshold leaves the counter as it is
StabilityCheck_NoReset(prev, gray_frame, stable, w, h) ==
    IF prev = NoFrame THEN [is_stable |-> TRUE, stable_frames |-> stable]
    ELSE LET similarity == ssim(prev, gray_frame, w, h, FALSE)
             n == IF similarity.value > stability_threshold
                  THEN stable + 1 ELSE stable
         IN  IF similarity.raised
             THEN [is_stable |-> FALSE, stable_frames |-> 0]
             ELSE [is_stable |-> n >= min_stable_frames, stable_frames |-> n]

\* (mutant) the stability check goes through fast_similarity
StabilityCheck_FastMode(prev, gray_frame, stable, w, h) ==
    IF prev = NoFrame THEN [is_stable |-> TRUE, stable_frames |-> stable]
    ELSE LET similarity ==
                 fast_similarity(prev, gray_frame, use_fast_mode, w, h)
             n == IF similarity.value > stability_threshold
                  THEN stable + 1 ELSE 0
         IN  IF similarity.raised
             THEN [is_stable |-> FALSE, stable_frames |-> 0]
             ELSE [is_stable |-> n >= min_stable_frames, stable_frames |-> n]

\* the stability check: the new stable_frames and is_stable
StabilityCheck(prev, gray_frame, stable, w, h) ==
    IF prev = NoFrame THEN [is_stable |-> TRUE, stable_frames |-> stable]
    ELSE LET similarity == ssim(prev, gray_frame, w, h, FALSE)
             n == IF similarity.value > stability_threshold
                  THEN stable + 1 ELSE 0
         IN  IF similarity.raised
             THEN [is_stable |-> FALSE, stable_frames |-> 0]
             ELSE [is_stable |-> n >= min_stable_frames, stable_frames |-> n]

\* (mutant) the ratio is taken over last_content, without the + 1
ContentIncreased_NoPlusOne(gray_frame, last_slide) ==
    /\ last_slide # NoFrame
    /\ 10 * count_nonzero(gray_frame) > 12 * count_nonzero(last_slide)

\* content_ratio = current_content / (last_content + 1) > 1.2
ContentIncreased(gray_frame, last_slide) ==
    /\ last_slide # NoFrame
    /\ 10 * count_nonzero(gray_frame) > 12 * (count_nonzero(last_slide) + 1)

\* current_content > saved_content * 1.2
MoreContentThan(gray_frame, saved_slide) ==
    10 * count_nonzero(gray_frame) > 12 * count_nonzero(saved_slide)

\* max_compare_slides and recent_slides
\* (mutant) the scan goes through the whole history
max_compare_slides_All(slides) == Len(slides)

max_compare_slides(slides) == Min(CompareWindow, Len(slides))
recent_slides(slides) ==
    SubSeq(slides, Len(slides) - max_compare_slides(slides) + 1, Len(slides))

\* what entry i (from 1) of recent_slides does to the scan: "replace",
\* "duplicate", or "next" (no match, or the comparison raised)
ScanEntry(saved_slide, gray_frame, content_increased, w, h) ==
    LET global_similarity ==
            fast_similarity(saved_slide, gray_frame, use_fast_mode, w, h)
    IN  IF global_similarity.raised THEN "next"
        ELSE IF global_similarity.value > ReplaceSimilarity /\ content_increased
             THEN (IF MoreContentThan(gray_frame, saved_slide)
                   THEN "replace" ELSE "next")
        ELSE IF global_similarity.value > DuplicateSimilarity THEN "duplicate"
        ELSE "next"

\* (mutant) the position in recent_slides counted from 1
ActualIndex_FromOne(slides, i) ==
    Len(slides) - max_compare_slides(slides) + i + 1

\* actual_index = len(saved_slides) - max_compare_slides + i, with i from 0
ActualIndex(slides, i) == Len(slides) - max_compare_slides(slides) + i

\* the for loop over recent_slides from entry i (from 1) on
RECURSIVE ScanFrom(_, _, _, _, _, _)
ScanFrom(i, slides, gray_frame, content_increased, w, h) ==
    LET recent == recent_slides(slides)
        hit == ScanEntry(recent[i], gray_frame, content_increased, w, h)
    IN  IF i > Len(recent)
        THEN [is_duplicate |-> FALSE, should_replace |-> -1]
        ELSE IF hit = "replace"
        THEN [is_duplicate |-> FALSE,
              should_replace |-> ActualIndex(slides, i - 1)]
        ELSE IF hit = "duplicate"
        THEN [is_duplicate |-> TRUE, should_replace |-> -1]
        ELSE ScanFrom(i + 1, slides, gray_frame, content_increased, w, h)

\* (mutant) should_replace is not set back to -1 before the loop: a scan
\* that finds nothing leaves the target of an earlier iteration
GlobalScan_Stale(slides, gray_frame, content_increased, w, h) ==
    LET scan == ScanFrom(1, slides, gray_frame, content_increased, w, h)
    IN  IF scan.is_duplicate \/ scan.should_replace >= 0 THEN scan
        ELSE [is_duplicate |-> FALSE, should_replace |-> should_replace]

GlobalScan(slides, gray_frame, content_increased, w, h) ==
    ScanFrom(1, slides, gray_frame, content_increased, w, h)

\* (mutant) both similarities have to be below the threshold
SaveCondition_Both(current_similarity, saved_similarity, content_increased, scan) ==
    /\ ~scan.is_duplicate
    /\ \/ /\ current_similarity < similarity_threshold
          /\ saved_similarity < similarity_threshold
       \/ content_increased
       \/ scan.should_replace >= 0

\* the saving condition once the frame is stable and the interval has passed
SaveCondition(current_similarity, saved_similarity, content_increased, scan) ==
    /\ ~scan.is_duplicate
    /\ \/ current_similarity < similarity_threshold
       \/ saved_similarity < similarity_threshold
       \/ content_increased
       \/ scan.should_replace >= 0

Outcome(raised, save, why, st, sr, bound) ==
    [raised |-> raised, save_condition |-> save, why |-> why,
     is_stable |-> st.is_stable, stable_frames |-> st.stable_frames,
     should_replace |-> sr, should_replace_bound |-> bound,
     current_similarity |-> -1, saved_similarity |-> -1,
     content_increased |-> FALSE]

\* the outcome of a frame that reached the comparisons, with their values
Compared(save, why, st, sr, cur, sav, grew) ==
    [Outcome(FALSE, save, why, st, sr, TRUE) EXCEPT
       !.current_similarity = cur,
       !.saved_similarity = sav,
       !.content_increased = grew]

\* the body of the loop up to "if save_condition": what it decides for
\* gray_frame and the locals it leaves
Evaluate(gray_frame) ==
    LET w == crop_region.w
        h == crop_region.h
        st == StabilityCheck(prev_frame, gray_frame, stable_frames, w, h)
        current_similarity ==
            fast_similarity(prev_frame, gray_frame, use_fast_mode, w, h)
        saved_similarity ==
            IF last_saved_slide # NoFrame
            THEN fast_similarity(last_saved_slide, gray_frame, use_fast_mode,
                                 w, h)
            ELSE Ok(0)
        content_increased == ContentIncreased(gray_frame, last_saved_slide)
        scan == GlobalScan(saved_slides, gray_frame, content_increased, w, h)
    IN  IF w <= 0 \/ h <= 0
        THEN \* cv2.cvtColor raises on an empty crop
             Outcome(TRUE, FALSE, "error", st, should_replace,
                     should_replace_bound)
        ELSE IF prev_frame = NoFrame
        THEN Outcome(FALSE, TRUE, "first", st, should_replace,
                     should_replace_bound)
        ELSE IF ~st.is_stable
        THEN Outcome(FALSE, FALSE, "unstable", st, should_replace,
                     should_replace_bound)
        ELSE IF TooSoon(frame_idx, last_saved_time)
        THEN Outcome(FALSE, FALSE, "interval", st, should_replace,
                     should_replace_bound)
        ELSE IF current_similarity.raised \/ saved_similarity.raised
        THEN Outcome(TRUE, FALSE, "error", st, should_replace,
                     should_replace_bound)
        ELSE IF SaveCondition(current_similarity.value, saved_similarity.value,
                              content_increased, scan)
        THEN Compared(TRUE, "changed", st, scan.should_replace,
                      current_similarity.value, saved_similarity.value,
                      content_increased)
        ELSE Compared(FALSE,
                      IF scan.is_duplicate THEN "duplicate" ELSE "similar",
                      st, scan.should_replace,
                      current_similarity.value, saved_similarity.value,
                      content_increased)

----------------------------------------------------------------------------
(* The videos and the settings the model runs the program on *)

Setting(sim, stab, interval, speed) ==
    [similarity_threshold |-> sim, stability_threshold |-> stab,
     sample_interval |-> interval, playback_speed |-> speed]

\* the GUI's initial values, two of its presets, and the defaults of
\* capture_slides_from_video
Settings ==
    { Setting(850, 960, 10, 10), Setting(750, 980, 5, 10),
      Setting(900, 940, 20, 20), Setting(700, 950, 5, 10) }

FrameRates == {2, 4}

\* no region, a small region, a region reaching over the frame's corner,
\* and the region of a click without a drag
RequestedRegions ==
    { NoRegion, Region(10, 10, 20, 20),
      Region(FrameWidth - 4, FrameHeight - 8, 20, 20), Region(5, 5, 0, 0) }

\* a slide, the same slide with encoding noise, with one and with two more
\* bullets revealed, and another, sparser slide
FreeImages ==
    { Img(0, 0, 0), Img(0, 0, 1), Img(0, 1, 0), Img(0, 2, 0), Img(1, 0, 0) }

Video(kind, a, b) == [kind |-> kind, a |-> a, b |-> b]

\* "free": every sample shows any image of FreeImages;
\* "static": every sample shows a;
\* "aba": a for 3 s, b for 3 s, then a again, 10 s in all;
\* "deck": DeckSlides different slides, DeckDwell samples each, then the
\*         slide a.slide again (a): with one more bullet revealed, or as
\*         it was when it was shown more than CompareWindow slides before
Videos ==
    { Video("free", NoFrame, NoFrame) }
    \cup { Video("static", Img(0, 0, 0), NoFrame),
           Video("static", Img(1, 1, 0), NoFrame) }
    \cup { Video("aba", Img(0, 0, 0), Img(1, 0, 0)),
           Video("aba", Img(1, 0, 0), Img(0, 0, 0)) }
    \cup { Video("deck", Img(k, 1, 0), NoFrame) :
             k \in {DeckSlides - 1, DeckSlides - 2} }
    \cup { Video("deck", Img(DeckSlides - CompareWindow - 10, 0, 0), NoFrame) }

\* int(cap.get(CAP_PROP_FRAME_COUNT)) of video v at rate f, sampled every
\* step frames
FrameCount(v, f, step) ==
    IF v.kind = "free" THEN MaxSamples * step
    ELSE IF v.kind = "static" THEN StaticSamples * step
    ELSE IF v.kind = "aba" THEN 10 * f
    ELSE (DeckSlides * DeckDwell + DeckDwell) * step

\* the images cap.read() can give at frame idx
FrameAt(v, idx) ==
    IF v.kind = "free" THEN FreeImages
    ELSE IF v.kind = "static" THEN {v.a}
    ELSE IF v.kind = "aba"
         THEN (IF idx < 3 * fps THEN {v.a}
               ELSE IF idx < 6 * fps THEN {v.b} ELSE {v.a})
    ELSE LET k == (idx \div frame_step) \div DeckDwell
         IN  IF k < DeckSlides THEN {Img(k, 0, 0)} ELSE {v.a}

\* Video2PPT as constructed: not running, no thread, nothing saved
NoLive == [is_running |-> FALSE, is_paused |-> FALSE, threads |-> <<>>,
           after |-> <<>>, slide_count |-> 0, screen |-> 0,
           stopped |-> FALSE, reported |-> 0, late |-> FALSE]

NoEvent == [kind |-> "none", index |-> -1, slot |-> -1, why |-> "none",
            run |-> 0, since |-> 0, sim_prev |-> -1, sim_saved |-> -1,
            grew |-> FALSE]

Init ==
    /\ \E s \in Settings :
          /\ similarity_threshold = s.similarity_threshold
          /\ stability_threshold = s.stability_threshold
          /\ sample_interval = s.sample_interval
          /\ playback_speed = s.playback_speed
    /\ fps \in FrameRates
    /\ use_fast_mode \in BOOLEAN
    /\ video \in Videos
    /\ frame_count = FrameCount(video, fps, frame_step)
    /\ frame_shape = Shape(FrameWidth, FrameHeight)
    /\ \E region \in RequestedRegions :
          crop_region = ClampCrop(region, FrameWidth, FrameHeight)
    /\ cropped_frame = Slice(crop_region, frame_shape)
    /\ live = NoLive
    \* capture_slides passes the False it has just stored; a direct caller
    \* may pass True
    /\ launched_by \in {"capture_slides", "direct"}
    /\ stop_flag = (launched_by = "direct")
    /\ stop_capture_flag = FALSE
    /\ pc = "head"
    /\ frame_idx = 0
    /\ prev_frame = NoFrame
    /\ saved_count = 0
    /\ last_saved_time = -InitialLastSaved * fps
    /\ stable_frames = 0
    /\ last_saved_slide = NoFrame
    /\ saved_slides = <<>>
    /\ should_replace = -1
    /\ should_replace_bound = FALSE
    /\ result = "running"
    /\ disk = <<>>
    /\ origin = <<>>
    /\ event = NoEvent

----------------------------------------------------------------------------
(* Actions *)

\* the head of the loop: "if stop_flag: ... return False, ..."
CheckStop ==
    /\ pc = "head"
    /\ IF stop_flag
       THEN pc' = "done" /\ result' = "stopped"
       ELSE pc' = "read" /\ result' = result
    /\ UNCHANGED <<config, frame_idx, prev_frame, saved_count,
                   last_saved_time, stable_frames, last_saved_slide,
                   saved_slides, should_replace, should_replace_bound,
                   stop_capture_flag, disk, origin, event>>

\* cap.read() gives no frame: break, and the function returns True
ReadFails ==
    /\ pc = "read"
    /\ pc' = "done"
    /\ result' = "completed"
    /\ UNCHANGED <<config, frame_idx, prev_frame, saved_count,
                   last_saved_time, stable_frames, last_saved_slide,
                   saved_slides, should_replace, should_replace_bound,
                   stop_capture_flag, disk, origin, event>>

\* (mutant) the replacement branch is never taken
IsReplacement_Never(e) == FALSE

\* "if save_condition:" takes the replacement branch
IsReplacement(e) == e.should_replace_bound /\ e.should_replace >= 0

\* (mutant) the count also grows when a slide is replaced
SavedCountAfter_Always(count, replacement) == count + 1

\* saved_count after a save: "saved_count += 1" is in the else branch
SavedCountAfter(count, replacement) ==
    IF replacement THEN count ELSE count + 1

\* saved_slides after a new slide: pop(0) when over the cap, then append
AppendSlide(slides, x) ==
    Append(IF Len(slides) > HistoryCap THEN Tail(slides) ELSE slides, x)

\* (mutant) the run of stable samples is kept across a save
AfterSave_KeepRun(gray_frame, e) ==
    [last_saved_time |-> frame_idx, last_saved_slide |-> gray_frame,
     stable_frames |-> e.stable_frames]

\* (mutant) a replacement puts the time of the last save back to its
\* initial value
AfterSave_Rearm(gray_frame, e) ==
    [last_saved_time |-> IF IsReplacement(e) THEN -InitialLastSaved * fps
                         ELSE frame_idx,
     last_saved_slide |-> gray_frame, stable_frames |-> 0]

\* the end of "if save_condition:", after either branch: last_saved_time =
\* current_time, last_saved_slide = gray_frame.copy(), stable_frames = 0
AfterSave(gray_frame, e) ==
    [last_saved_time |-> frame_idx, last_saved_slide |-> gray_frame,
     stable_frames |-> 0]

\* (mutant) the frame index is left where it is
Advance_Stay(idx) == idx

\* frame_idx += frame_step
Advance(idx) == idx + frame_step

\* (mutant) a frame that is not saved is remembered all the same as the
\* last saved slide
AfterReject_Remember(gray_frame, e) ==
    [last_saved_time |-> last_saved_time, last_saved_slide |-> gray_frame,
     stable_frames |-> e.stable_frames]

\* save_condition false: nothing of "if save_condition:" runs, the locals
\* keep their values and stable_frames that of the stability check
AfterReject(gray_frame, e) ==
    [last_saved_time |-> last_saved_time,
     last_saved_slide |-> last_saved_slide,
     stable_frames |-> e.stable_frames]

\* cap.read() gives a frame: the rest of the iteration
EvalFrame ==
    /\ pc = "read"
    /\ \E gray_frame \in FrameAt(video, frame_idx) :
         LET e == Evaluate(gray_frame)
             out_of_range == /\ e.save_condition
                             /\ IsReplacement(e)
                             /\ e.should_replace >= Len(saved_slides)
             next_idx == Advance(frame_idx)
         IN  IF e.raised \/ out_of_range
             THEN \* except Exception: return False, error_msg
                  /\ pc' = "done"
                  /\ result' = "error"
                  /\ event' = [NoEvent EXCEPT !.kind = "error"]
                  /\ UNCHANGED <<frame_idx, prev_frame, saved_count,
                                 last_saved_time, stable_frames,
                                 last_saved_slide, saved_slides,
                                 should_replace, should_replace_bound,
                                 disk, origin>>
             ELSE /\ should_replace' = e.should_replace
                  /\ should_replace_bound' = e.should_replace_bound
                  /\ IF e.save_condition /\ IsReplacement(e)
                     THEN /\ saved_slides' =
                               [saved_slides EXCEPT
                                  ![e.should_replace + 1] = gray_frame]
                          /\ disk' = [disk EXCEPT
                                        ![e.should_replace + 1] = gray_frame]
                          /\ saved_count' = SavedCountAfter(saved_count, TRUE)
                          /\ UNCHANGED origin
                          /\ event' = [kind |-> "replace",
                                       index |-> e.should_replace,
                                       slot |-> e.should_replace,
                                       why |-> e.why,
                                       run |-> e.stable_frames,
                                       since |-> frame_idx - last_saved_time,
                                       sim_prev |-> e.current_similarity,
                                       sim_saved |-> e.saved_similarity,
                                       grew |-> e.content_increased]
                     ELSE IF e.save_condition
                     THEN /\ saved_count' = SavedCountAfter(saved_count, FALSE)
                          /\ saved_slides' = AppendSlide(saved_slides,
                                                         gray_frame)
                          /\ origin' = AppendSlide(origin, saved_count)
                          /\ disk' = Append(disk, gray_frame)
                          /\ event' = [kind |-> "new",
                                       index |-> saved_count,
                                       slot |-> Len(saved_slides') - 1,
                                       why |-> e.why,
                                       run |-> e.stable_frames,
                                       since |-> frame_idx - last_saved_time,
                                       sim_prev |-> e.current_similarity,
                                       sim_saved |-> e.saved_similarity,
                                       grew |-> e.content_increased]
                     ELSE /\ UNCHANGED <<saved_count, saved_slides, origin,
                                         disk>>
                          /\ event' = [NoEvent EXCEPT
                                         !.kind = "reject",
                                         !.why = e.why,
                                         !.run = e.stable_frames,
                                         !.sim_prev = e.current_similarity,
                                         !.sim_saved = e.saved_similarity,
                                         !.grew = e.content_increased]
                  /\ IF e.save_condition
                     THEN /\ last_saved_time' =
                               AfterSave(gray_frame, e).last_saved_time
                          /\ last_saved_slide' =
                               AfterSave(gray_frame, e).last_saved_slide
                          /\ stable_frames' =
                               AfterSave(gray_frame, e).stable_frames
                     ELSE /\ last_saved_time' =
                               AfterReject(gray_frame, e).last_saved_time
                          /\ last_saved_slide' =
                               AfterReject(gray_frame, e).last_saved_slide
                          /\ stable_frames' =
                               AfterReject(gray_frame, e).stable_frames
                  /\ prev_frame' = gray_frame
                  /\ frame_idx' = next_idx
                  /\ IF next_idx >= frame_count
                     THEN pc' = "done" /\ result' = "completed"
                     ELSE pc' = "head" /\ result' = result
    /\ UNCHANGED <<config, stop_capture_flag>>

\* VideoAudioProcessor.stop_capture, while the capture thread is alive
StopCapture ==
    /\ launched_by = "capture_slides"
    /\ pc # "done"
    /\ stop_capture_flag' = TRUE
    /\ UNCHANGED <<config, pc, frame_idx, prev_frame, saved_count,
                   last_saved_time, stable_frames, last_saved_slide,
                   saved_slides, should_replace, should_replace_bound,
                   result, disk, origin, event>>

\* what capture_slides_from_video returns for each way of ending: the
\* (success, result) pair, result being the dict with "slide_count" or a
\* message string
ReturnValue(res, count) ==
    IF res = "completed"
    THEN [success |-> TRUE, payload |-> "dict", slide_count |-> {count},
          message |-> ""]
    ELSE IF res = "stopped"
    THEN [success |-> FALSE, payload |-> "str", slide_count |-> {},
          message |-> "capture stopped by the user"]
    ELSE [success |-> FALSE, payload |-> "str", slide_count |-> {},
          message |-> "str(e)"]

\* VideoAudioProcessor.capture_completed(success, result): what the caller
\* shows, chosen by the success flag alone
capture_completed(ret) ==
    IF ret.success
    THEN [status |-> "capture done", slide_count |-> ret.slide_count,
          showerror |-> FALSE]
    ELSE [status |-> "capture failed", slide_count |-> {},
          showerror |-> TRUE]

Next == CheckStop \/ ReadFails \/ EvalFrame \/ StopCapture

Spec == Init /\ [][Next]_vars

\* the loop runs in one thread that nothing blocks: its next step, the test
\* of the stop flag, the read or the rest of the iteration, is always taken
\* in the end; stop_capture is the user's and may never come
FairSpec == Spec /\ WF_vars(CheckStop \/ ReadFails \/ EvalFrame)

----------------------------------------------------------------------------
(* The clamping and the cropping on their own, on any region and frame *)

\* the sides of the frames
Sides == 1..MaxSide

\* the regions asked for: corners and sizes inside, across and outside the
\* frame, sizes of 0 and below included
Requests ==
    LET Coords == (-Overhang)..(MaxSide + Overhang)
    IN  {NoRegion} \cup
        {Region(x, y, w, h) : x \in Coords, y \in Coords,
                              w \in Coords, h \in Coords}

CropInit ==
    /\ similarity_threshold = 850
    /\ stability_threshold = 960
    /\ sample_interval = 10
    /\ playback_speed = 10
    /\ fps = 2
    /\ use_fast_mode = TRUE
    /\ video = Video("static", Img(0, 0, 0), NoFrame)
    /\ frame_count = FrameCount(video, fps, frame_step)
    /\ frame_shape \in {Shape(w, h) : w \in Sides, h \in Sides}
    /\ crop_region \in Requests
    /\ cropped_frame = NoShape
    /\ live = NoLive
    /\ launched_by = "direct"
    /\ stop_flag = FALSE
    /\ stop_capture_flag = FALSE
    /\ pc = "setup"
    /\ frame_idx = 0
    /\ prev_frame = NoFrame
    /\ saved_count = 0
    /\ last_saved_time = -InitialLastSaved * fps
    /\ stable_frames = 0
    /\ last_saved_slide = NoFrame
    /\ saved_slides = <<>>
    /\ should_replace = -1
    /\ should_replace_bound = FALSE
    /\ result = "running"
    /\ disk = <<>>
    /\ origin = <<>>
    /\ event = NoEvent

\* what a step of the cropping leaves alone
CropFrame_Unchanged ==
    UNCHANGED <<video, fps, frame_count, similarity_threshold,
                stability_threshold, sample_interval, playback_speed,
                use_fast_mode, stop_flag, launched_by, frame_shape, live,
                frame_idx, prev_frame, saved_count, last_saved_time,
                stable_frames, last_saved_slide, saved_slides,
                should_replace, should_replace_bound, result,
                stop_capture_flag, disk, origin, event>>

\* capture_slides_from_video clamps crop_region to the first frame
ClampRegion ==
    /\ pc = "setup"
    /\ crop_region' = ClampCrop(crop_region, frame_shape.w, frame_shape.h)
    /\ pc' = "clamped"
    /\ UNCHANGED cropped_frame
    /\ CropFrame_Unchanged

\* capture_loop clamps self.roi to the screenshot
ClampRoiStep ==
    /\ pc = "setup"
    /\ crop_region # NoRegion
    /\ crop_region' = ClampRoi(crop_region, frame_shape.w, frame_shape.h)
    /\ pc' = "clamped"
    /\ UNCHANGED cropped_frame
    /\ CropFrame_Unchanged

\* cropped_frame = frame[y:y+h, x:x+w], roi_frame = frame[y1:y2, x1:x2]
CropFrame ==
    /\ pc = "clamped"
    /\ cropped_frame' = Slice(crop_region, frame_shape)
    /\ pc' = "cropped"
    /\ UNCHANGED crop_region
    /\ CropFrame_Unchanged

CropNext == ClampRegion \/ ClampRoiStep \/ CropFrame

CropSpec == CropInit /\ [][CropNext]_vars

----------------------------------------------------------------------------
(* The comparison of a frame with the last saved slide on its own, on any *)
(* pair of images, crop and mode                                          *)

\* the fixture images and three more of the first slide, with 20, 21 and
\* 22 more pixels brighter than 20: on either side of 1.2 times its count
SimImages == FreeImages \cup {Img(0, 0, 20), Img(0, 0, 21), Img(0, 0, 22)}

SimInit ==
    /\ similarity_threshold = 850
    /\ stability_threshold = 960
    /\ sample_interval = 10
    /\ playback_speed = 10
    /\ fps = 2
    /\ use_fast_mode \in BOOLEAN
    /\ video = Video("free", NoFrame, NoFrame)
    /\ frame_count = FrameCount(video, fps, frame_step)
    /\ frame_shape = Shape(FrameWidth, FrameHeight)
    /\ \E region \in RequestedRegions :
          crop_region = ClampCrop(region, FrameWidth, FrameHeight)
    /\ cropped_frame = Slice(crop_region, frame_shape)
    /\ live = NoLive
    /\ launched_by = "direct"
    /\ stop_flag = FALSE
    /\ stop_capture_flag = FALSE
    /\ pc = "compare"
    /\ frame_idx = 0
    /\ prev_frame = NoFrame
    /\ saved_count = 0
    /\ last_saved_time = -InitialLastSaved * fps
    /\ stable_frames = 0
    /\ last_saved_slide \in SimImages \cup {NoFrame}
    /\ saved_slides = <<>>
    /\ should_replace = -1
    /\ should_replace_bound = FALSE
    /\ result = "running"
    /\ disk = <<>>
    /\ origin = <<>>
    /\ event = NoEvent

\* saved_similarity and content_increased of a frame, as the loop computes
\* them: fast_similarity(last_saved_slide, gray_frame, use_fast_mode) or 0,
\* and the ratio of the counts of pixels brighter than 20
CompareFrames ==
    /\ pc = "compare"
    /\ \E gray_frame \in SimImages :
         LET saved_similarity ==
                 IF last_saved_slide # NoFrame
                 THEN fast_similarity(last_saved_slide, gray_frame,
                                      use_fast_mode, crop_region.w,
                                      crop_region.h)
                 ELSE Ok(0)
         IN  /\ prev_frame' = gray_frame
             /\ event' = IF saved_similarity.raised
                          THEN [NoEvent EXCEPT !.kind = "error"]
                          ELSE [NoEvent EXCEPT
                                  !.kind = "compared",
                                  !.sim_saved = saved_similarity.value,
                                  !.grew = ContentIncreased(gray_frame,
                                                            last_saved_slide)]
    /\ pc' = "compared"
    /\ UNCHANGED <<config, frame_idx, saved_count, last_saved_time,
                   stable_frames, last_saved_slide, saved_slides,
                   should_replace, should_replace_bound, result,
                   stop_capture_flag, disk, origin>>

SimNext == CompareFrames

SimSpec == SimInit /\ [][SimNext]_vars

----------------------------------------------------------------------------
(* Video2PPT in screen mode: the buttons, run by the Tk main loop, and the *)
(* capture_screen threads.  live.threads[i] is the i-th thread started:    *)
(* where it is in its loop and its local last_screenshot (-1 is None).     *)
(* live.after holds the frames of the save_slide calls handed to           *)
(* root.after; live.stopped says that stop_capture has run since the last  *)
(* start, live.reported is the slide_count it showed, and live.late that a *)
(* frame has been evaluated since.  A frame is what the screen shows, and  *)
(* two frames are similar when they show the same.                         *)

LiveInit ==
    /\ similarity_threshold = 850
    /\ stability_threshold = 960
    /\ sample_interval = 10
    /\ playback_speed = 10
    /\ fps = 2
    /\ use_fast_mode = TRUE
    /\ video = Video("free", NoFrame, NoFrame)
    /\ frame_count = FrameCount(video, fps, frame_step)
    /\ frame_shape = Shape(FrameWidth, FrameHeight)
    /\ crop_region = ClampCrop(NoRegion, FrameWidth, FrameHeight)
    /\ cropped_frame = Slice(crop_region, frame_shape)
    /\ live = NoLive
    /\ launched_by = "Video2PPT"
    /\ stop_flag = FALSE
    /\ stop_capture_flag = FALSE
    /\ pc = "screen"
    /\ frame_idx = 0
    /\ prev_frame = NoFrame
    /\ saved_count = 0
    /\ last_saved_time = -InitialLastSaved * fps
    /\ stable_frames = 0
    /\ last_saved_slide = NoFrame
    /\ saved_slides = <<>>
    /\ should_replace = -1
    /\ should_replace_bound = FALSE
    /\ result = "running"
    /\ disk = <<>>
    /\ origin = <<>>
    /\ event = NoEvent

\* what a step of Video2PPT leaves alone
Live_Unchanged ==
    UNCHANGED <<video, fps, frame_count, similarity_threshold,
                stability_threshold, sample_interval, playback_speed,
                use_fast_mode, crop_region, stop_flag, launched_by,
                frame_shape, cropped_frame, pc, frame_idx, prev_frame,
                saved_count, last_saved_time, stable_frames,
                last_saved_slide, saved_slides, should_replace,
                should_replace_bound, result, stop_capture_flag, disk,
                origin, event>>

\* threading.Thread(target=self.capture_screen).start()
NewThread == [pc |-> "test", last_screenshot |-> -1]

\* Video2PPT.start_capture, screen source; the start button is disabled
\* from here to stop_capture
V2P_start_capture ==
    /\ pc = "screen"
    /\ ~live.is_running
    /\ Len(live.threads) < MaxThreads
    /\ live' = [live EXCEPT !.is_running = TRUE, !.is_paused = FALSE,
                            !.threads = Append(@, NewThread),
                            !.stopped = FALSE]
    /\ Live_Unchanged

\* Video2PPT.pause_capture: pauses, or resumes with a new thread
V2P_pause_capture ==
    /\ pc = "screen"
    /\ live.is_running
    /\ IF live.is_paused
       THEN /\ Len(live.threads) < MaxThreads
            /\ live' = [live EXCEPT !.is_paused = FALSE,
                                    !.threads = Append(@, NewThread)]
       ELSE live' = [live EXCEPT !.is_paused = TRUE]
    /\ Live_Unchanged

\* Video2PPT.stop_capture, from the stop button: clears the flags and shows
\* slide_count
V2P_stop_capture ==
    /\ pc = "screen"
    /\ live.is_running
    /\ live' = [live EXCEPT !.is_running = FALSE, !.is_paused = FALSE,
                            !.stopped = TRUE,
                            !.reported = live.slide_count]
    /\ Live_Unchanged

\* capture_screen: "while self.is_running and not self.is_paused", at the
\* start of the thread and after each time.sleep(self.interval)
capture_screen_test ==
    /\ pc = "screen"
    /\ \E i \in DOMAIN live.threads :
         /\ live.threads[i].pc = "test"
         /\ live' = [live EXCEPT
                       !.threads[i].pc =
                          IF live.is_running /\ ~live.is_paused
                          THEN "frame" ELSE "ended"]
    /\ Live_Unchanged

\* capture_screen, the body of the loop: the screenshot, the comparison
\* with last_screenshot, and save_slide handed to root.after
capture_screen_frame ==
    /\ pc = "screen"
    /\ \E i \in DOMAIN live.threads :
         LET frame == live.screen
             last == live.threads[i].last_screenshot
             save == last = -1 \/ frame # last
         IN  /\ live.threads[i].pc = "frame"
             /\ live' = [live EXCEPT
                           !.threads[i].pc = "test",
                           !.threads[i].last_screenshot =
                              IF save THEN frame ELSE last,
                           !.after = IF save THEN Append(@, frame) ELSE @,
                           !.late = @ \/ live.stopped]
    /\ Live_Unchanged

\* the main loop runs a waiting save_slide(f): writes the file, counts it
V2P_save_slide ==
    /\ pc = "screen"
    /\ live.after # <<>>
    /\ live' = [live EXCEPT !.after = Tail(@),
                            !.slide_count = @ + 1]
    /\ Live_Unchanged

\* the screen shows something else
ChangeScreen ==
    /\ pc = "screen"
    /\ live.screen < MaxScreens
    /\ live' = [live EXCEPT !.screen = @ + 1]
    /\ Live_Unchanged

LiveNext ==
    \/ V2P_start_capture
    \/ V2P_pause_capture
    \/ V2P_stop_capture
    \/ capture_screen_test
    \/ capture_screen_frame
    \/ V2P_save_slide
    \/ ChangeScreen

LiveSpec == LiveInit /\ [][LiveNext]_vars

----------------------------------------------------------------------------
(* BrowserCapture and the file mode of Video2PPT: the capture is a chain of
   Tk callbacks, each run of capture_loop / process_video asking root.after
   for the next one *)

MaxPending == 2
MaxFrames == 5
MaxSlides == 5

\* the window as constructed: not running, no callback waiting, nothing
\* saved; screen is what the monitored region shows, pos the position of
\* the opened video
NoChain == [is_running |-> FALSE, is_paused |-> FALSE, pending |-> 0,
            last_frame |-> -1, slide_count |-> 0, screen |-> 0, pos |-> 0]

\* the frame a video file gives at position pos: a new slide every second
\* frame
FileFrame(pos) == pos \div 2

\* "if self.last_frame is not None: ... else: ..." on frame: the first frame
\* and a frame that differs from last_frame are saved and become last_frame
Judge(l, frame) ==
    IF l.last_frame = -1 \/ frame # l.last_frame
    THEN [l EXCEPT !.last_frame = frame, !.slide_count = @ + 1]
    ELSE l

\* BrowserCapture.capture_loop, one run
capture_loop(l) ==
    IF ~l.is_running \/ l.is_paused THEN l
    ELSE [Judge(l, l.screen) EXCEPT !.pending = @ + 1]

\* Video2PPT.process_video, one run; a read that fails calls stop_capture
process_video(l) ==
    IF ~l.is_running \/ l.is_paused THEN l
    ELSE IF l.pos >= MaxFrames
    THEN [l EXCEPT !.is_running = FALSE, !.is_paused = FALSE]
    ELSE [Judge(l, FileFrame(l.pos)) EXCEPT !.pos = @ + 1,
                                            !.pending = @ + 1]

\* the callback of the program that runs
Callback(l) ==
    IF launched_by = "BrowserCapture" THEN capture_loop(l)
    ELSE process_video(l)

ChainInit ==
    /\ similarity_threshold = 850
    /\ stability_threshold = 960
    /\ sample_interval = 10
    /\ playback_speed = 10
    /\ fps = 2
    /\ use_fast_mode = TRUE
    /\ video = Video("free", NoFrame, NoFrame)
    /\ frame_count = FrameCount(video, fps, frame_step)
    /\ frame_shape = Shape(FrameWidth, FrameHeight)
    /\ crop_region = ClampCrop(NoRegion, FrameWidth, FrameHeight)
    /\ cropped_frame = Slice(crop_region, frame_shape)
    /\ live = NoChain
    /\ launched_by \in {"BrowserCapture", "Video2PPT"}
    /\ stop_flag = FALSE
    /\ stop_capture_flag = FALSE
    /\ pc = "chain"
    /\ frame_idx = 0
    /\ prev_frame = NoFrame
    /\ saved_count = 0
    /\ last_saved_time = -InitialLastSaved * fps
    /\ stable_frames = 0
    /\ last_saved_slide = NoFrame
    /\ saved_slides = <<>>
    /\ should_replace = -1
    /\ should_replace_bound = FALSE
    /\ result = "running"
    /\ disk = <<>>
    /\ origin = <<>>
    /\ event = NoEvent

\* start_capture; the start button is disabled from here to stop_capture.
\* BrowserCapture asks for capture_loop in 100 ms; Video2PPT opens the
\* video, reads its first frame for the size and calls process_video
Chain_start_capture ==
    /\ pc = "chain"
    /\ ~live.is_running
    /\ live.pending < MaxPending
    /\ LET started == [live EXCEPT !.is_running = TRUE,
                                   !.is_paused = FALSE]
       IN  live' = IF launched_by = "BrowserCapture"
                   THEN [started EXCEPT !.pending = @ + 1]
                   ELSE process_video([started EXCEPT !.pos = 1])
    /\ live'.slide_count <= MaxSlides
    /\ Live_Unchanged

\* pause_capture: pauses, or resumes and calls capture_loop /
\* process_video itself
Chain_pause_capture ==
    /\ pc = "chain"
    /\ live.is_running
    /\ IF live.is_paused
       THEN /\ live.pending < MaxPending
            /\ live' = Callback([live EXCEPT !.is_paused = FALSE])
       ELSE live' = [live EXCEPT !.is_paused = TRUE]
    /\ live'.slide_count <= MaxSlides
    /\ Live_Unchanged

\* stop_capture, from the stop button
Chain_stop_capture ==
    /\ pc = "chain"
    /\ live.is_running
    /\ live' = [live EXCEPT !.is_running = FALSE, !.is_paused = FALSE]
    /\ Live_Unchanged

\* the delay of a waiting callback is over: Tk runs it
Chain_callback ==
    /\ pc = "chain"
    /\ live.pending > 0
    /\ live' = Callback([live EXCEPT !.pending = @ - 1])
    /\ live'.slide_count <= MaxSlides
    /\ Live_Unchanged

\* the monitored region of the screen shows something else
Chain_ChangeScreen ==
    /\ pc = "chain"
    /\ launched_by = "BrowserCapture"
    /\ live.screen < MaxScreens
    /\ live' = [live EXCEPT !.screen = @ + 1]
    /\ Live_Unchanged

ChainNext ==
    \/ Chain_start_capture
    \/ Chain_pause_capture
    \/ Chain_stop_capture
    \/ Chain_callback
    \/ Chain_ChangeScreen

ChainSpec == ChainInit /\ [][ChainNext]_vars

----------------------------------------------------------------------------
(* ChromeCapture: capture_loop runs in a thread of its own while
   capture_running; time is counted in ticks of the clock *)

MaxTime == 3

\* the inactivity timeouts of the scale: off, and one tick
Timeouts == {0, 1}

\* ChromeCapture as constructed.  buttons is "idle" while the start button
\* is the enabled one and "capturing" while pause and stop are; threads
\* holds the capture_loop threads that have not returned, after_stop the
\* stop_capture calls waiting in root.after; pauses counts the calls of
\* pause_capture since the start, changed tells that the screen changed
\* after the second of them and saved that a slide was saved after that
NoChrome ==
    [capture_running |-> FALSE, buttons |-> "idle", threads |-> <<>>,
     previous_frame |-> -1, slide_count |-> 0, screen |-> 0,
     last_change_time |-> 0, now |-> 0, auto_stop_enabled |-> TRUE,
     inactivity_timeout |-> 0, after_stop |-> 0, pauses |-> 0,
     changed |-> FALSE, saved |-> FALSE, auto_stopped |-> FALSE]

\* (mutant) the timeout also fires with the checkbox unticked
AutoStopDue_Unchecked(l) ==
    /\ l.inactivity_timeout > 0
    /\ l.now - l.last_change_time > l.inactivity_timeout

\* auto_stop_enabled and inactivity_timeout > 0 and
\* time_since_last_change > inactivity_timeout
AutoStopDue(l) ==
    /\ l.auto_stop_enabled
    /\ l.inactivity_timeout > 0
    /\ l.now - l.last_change_time > l.inactivity_timeout

\* save_slide(roi_frame), previous_frame = roi_frame and last_change_time
\* = the time of the frame
SaveChromeSlide(l) ==
    [l EXCEPT !.previous_frame = l.screen, !.slide_count = @ + 1,
              !.last_change_time = l.now,
              !.saved = @ \/ l.changed]

\* the thread at position i has returned
Without(threads, i) ==
    SubSeq(threads, 1, i - 1) \o SubSeq(threads, i + 1, Len(threads))

ChromeInit ==
    /\ similarity_threshold = 850
    /\ stability_threshold = 960
    /\ sample_interval = 10
    /\ playback_speed = 10
    /\ fps = 2
    /\ use_fast_mode = TRUE
    /\ video = Video("free", NoFrame, NoFrame)
    /\ frame_count = FrameCount(video, fps, frame_step)
    /\ frame_shape = Shape(FrameWidth, FrameHeight)
    /\ crop_region = ClampCrop(NoRegion, FrameWidth, FrameHeight)
    /\ cropped_frame = Slice(crop_region, frame_shape)
    /\ live = NoChrome
    /\ launched_by = "ChromeCapture"
    /\ stop_flag = FALSE
    /\ stop_capture_flag = FALSE
    /\ pc = "chrome"
    /\ frame_idx = 0
    /\ prev_frame = NoFrame
    /\ saved_count = 0
    /\ last_saved_time = -InitialLastSaved * fps
    /\ stable_frames = 0
    /\ last_saved_slide = NoFrame
    /\ saved_slides = <<>>
    /\ should_replace = -1
    /\ should_replace_bound = FALSE
    /\ result = "running"
    /\ disk = <<>>
    /\ origin = <<>>
    /\ event = NoEvent

\* ChromeCapture.start_capture with a timeout read off the scale: resets
\* last_change_time, previous_frame and slide_count and starts a thread
CC_start_capture ==
    /\ pc = "chrome"
    /\ live.buttons = "idle"
    /\ Len(live.threads) < MaxThreads
    /\ \E timeout \in Timeouts :
         live' = [live EXCEPT
                    !.inactivity_timeout = timeout,
                    !.last_change_time = live.now,
                    !.previous_frame = -1,
                    !.slide_count = 0,
                    !.capture_running = TRUE,
                    !.buttons = "capturing",
                    !.threads = Append(@, "test"),
                    !.pauses = 0, !.changed = FALSE, !.saved = FALSE,
                    !.auto_stopped = FALSE]
    /\ Live_Unchanged

\* ChromeCapture.pause_capture: flips capture_running and nothing else
CC_pause_capture ==
    /\ pc = "chrome"
    /\ live.buttons = "capturing"
    /\ live.pauses < 2
    /\ live' = [live EXCEPT !.capture_running = ~@, !.pauses = @ + 1]
    /\ Live_Unchanged

\* ChromeCapture.stop_capture, from the stop button
CC_stop_capture ==
    /\ pc = "chrome"
    /\ live.buttons = "capturing"
    /\ live' = [live EXCEPT !.capture_running = FALSE,
                            !.buttons = "idle"]
    /\ Live_Unchanged

\* the stop_capture that the loop handed to root.after(0, ...) runs
CC_after_stop ==
    /\ pc = "chrome"
    /\ live.after_stop > 0
    /\ live' = [live EXCEPT !.capture_running = FALSE,
                            !.buttons = "idle",
                            !.after_stop = @ - 1]
    /\ Live_Unchanged

\* toggle_auto_stop: the checkbox is clicked
CC_toggle_auto_stop ==
    /\ pc = "chrome"
    /\ live' = [live EXCEPT !.auto_stop_enabled = ~@]
    /\ Live_Unchanged

\* capture_loop: "while self.capture_running", at the start of the thread
\* and after each time.sleep(self.interval); the thread returns when the
\* flag is down
CC_capture_loop_test ==
    /\ pc = "chrome"
    /\ \E i \in DOMAIN live.threads :
         /\ live.threads[i] = "test"
         /\ live' = [live EXCEPT
                       !.threads = IF live.capture_running
                                   THEN [@ EXCEPT ![i] = "frame"]
                                   ELSE Without(@, i)]
    /\ Live_Unchanged

\* capture_loop, the body: the first frame is saved; a later one ends the
\* loop when the auto stop is due and is saved when it differs from
\* previous_frame
CC_capture_loop_frame ==
    /\ pc = "chrome"
    /\ \E i \in DOMAIN live.threads :
         /\ live.threads[i] = "frame"
         /\ live' =
              IF live.previous_frame = -1
              THEN [SaveChromeSlide(live) EXCEPT !.threads[i] = "test"]
              ELSE IF AutoStopDue(live)
              THEN [live EXCEPT !.threads = Without(@, i),
                                !.after_stop = @ + 1,
                                !.auto_stopped = TRUE]
              ELSE IF live.screen # live.previous_frame
              THEN [SaveChromeSlide(live) EXCEPT !.threads[i] = "test"]
              ELSE [live EXCEPT !.threads[i] = "test"]
    /\ Live_Unchanged

\* the monitored region of the screen shows something else
CC_ChangeScreen ==
    /\ pc = "chrome"
    /\ live.screen < MaxScreens
    /\ live' = [live EXCEPT !.screen = @ + 1,
                            !.changed = @ \/ (live.pauses = 2)]
    /\ Live_Unchanged

\* the clock moves on
CC_Tick ==
    /\ pc = "chrome"
    /\ live.now < MaxTime
    /\ live' = [live EXCEPT !.now = @ + 1]
    /\ Live_Unchanged

ChromeNext ==
    \/ CC_start_capture
    \/ CC_pause_capture
    \/ CC_stop_capture
    \/ CC_after_stop
    \/ CC_toggle_auto_stop
    \/ CC_capture_loop_test
    \/ CC_capture_loop_frame
    \/ CC_ChangeScreen
    \/ CC_Tick

ChromeSpec == ChromeInit /\ [][ChromeNext]_vars

\* a thread that has been started runs on, and Tk runs what it has been
\* handed; the user's clicks, the screen and the clock are under no
\* obligation
FairChromeSpec ==
    /\ ChromeSpec
    /\ WF_vars(CC_capture_loop_test)
    /\ WF_vars(CC_capture_loop_frame)
    /\ WF_vars(CC_after_stop)

----------------------------------------------------------------------------
(* quick_start.capture_slides: every interval-th frame of the video is
   compared with the last saved one.  Here frame_idx is its frame_count
   (the frames read so far), last_saved_slide its last_frame, saved_count
   its slide_count, similarity_threshold its threshold, sample_interval its
   interval, in frames, and prev_frame the frame just read *)

MaxQuickFrames == 4

\* the intervals and the thresholds the function is called with
QuickIntervals == {1, 2}
QuickThresholds == {950, 970}

\* (mutant) last_frame follows every sampled frame
NextLastFrame_Always(save, gray, last_frame) == gray

\* last_frame after a sampled frame: gray if the frame was saved
NextLastFrame(save, gray, last_frame) ==
    IF save THEN gray ELSE last_frame

QuickInit ==
    /\ similarity_threshold \in QuickThresholds
    /\ stability_threshold = 960
    /\ sample_interval \in QuickIntervals
    /\ playback_speed = 10
    /\ fps = 2
    /\ use_fast_mode = FALSE
    /\ video = Video("free", NoFrame, NoFrame)
    /\ frame_count = MaxQuickFrames
    /\ frame_shape = Shape(FrameWidth, FrameHeight)
    /\ crop_region = ClampCrop(NoRegion, FrameWidth, FrameHeight)
    /\ cropped_frame = Slice(crop_region, frame_shape)
    /\ live = NoLive
    /\ launched_by = "quick_start"
    /\ stop_flag = FALSE
    /\ stop_capture_flag = FALSE
    /\ pc = "quick"
    /\ frame_idx = 0
    /\ prev_frame = NoFrame
    /\ saved_count = 0
    /\ last_saved_time = -InitialLastSaved * fps
    /\ stable_frames = 0
    /\ last_saved_slide = NoFrame
    /\ saved_slides = <<>>
    /\ should_replace = -1
    /\ should_replace_bound = FALSE
    /\ result = "running"
    /\ disk = <<>>
    /\ origin = <<>>
    /\ event = NoEvent

\* what a step of capture_slides leaves alone
Quick_Unchanged ==
    UNCHANGED <<config, live, last_saved_time, stable_frames, saved_slides,
                should_replace, should_replace_bound, stop_capture_flag,
                origin>>

\* cap.read() gives no frame: break, cap.release(), return slide_count
QS_ReadFails ==
    /\ pc = "quick"
    /\ frame_idx >= frame_count
    /\ pc' = "done"
    /\ result' = "returned"
    /\ event' = [NoEvent EXCEPT !.kind = "return", !.index = saved_count]
    /\ UNCHANGED <<frame_idx, prev_frame, saved_count, last_saved_slide,
                   disk>>
    /\ Quick_Unchanged

\* a frame is read and frame_count % interval != 0: continue
QS_Skip ==
    /\ pc = "quick"
    /\ frame_idx < frame_count
    /\ (frame_idx + 1) % sample_interval # 0
    /\ \E frame \in FrameAt(video, frame_idx) :
         prev_frame' = frame
    /\ frame_idx' = frame_idx + 1
    /\ event' = [NoEvent EXCEPT !.kind = "skip"]
    /\ UNCHANGED <<pc, result, saved_count, last_saved_slide, disk>>
    /\ Quick_Unchanged

\* a frame is read and sampled: saved as slide_{slide_count:03d}.png when
\* last_frame is None or ssim(gray, last_frame) < threshold
QS_Sample ==
    /\ pc = "quick"
    /\ frame_idx < frame_count
    /\ (frame_idx + 1) % sample_interval = 0
    /\ \E frame \in FrameAt(video, frame_idx) :
         LET similarity == IF last_saved_slide = NoFrame THEN -1
                           ELSE SsimFull(frame, last_saved_slide)
             save == \/ last_saved_slide = NoFrame
                     \/ similarity < similarity_threshold
         IN  /\ prev_frame' = frame
             /\ last_saved_slide' =
                  NextLastFrame(save, frame, last_saved_slide)
             /\ disk' = IF save THEN Append(disk, frame) ELSE disk
             /\ saved_count' = IF save THEN saved_count + 1
                               ELSE saved_count
             /\ event' = [NoEvent EXCEPT
                            !.kind = IF save THEN "new" ELSE "reject",
                            !.index = IF save THEN saved_count ELSE -1,
                            !.sim_saved = similarity]
    /\ frame_idx' = frame_idx + 1
    /\ UNCHANGED <<pc, result>>
    /\ Quick_Unchanged

QuickNext == QS_ReadFails \/ QS_Skip \/ QS_Sample

QuickSpec == QuickInit /\ [][QuickNext]_vars

----------------------------------------------------------------------------
(* Properties *)

\* the last evaluated frame was saved, as a new slide or as a replacement
Accepted == event.kind \in {"new", "replace"}

\* the whole video has been sampled
Finished == result = "completed" /\ frame_idx >= frame_count

\* C1: when every sampled frame of the session is the same image, no slide
\* but the first sampled frame is ever saved: at most one slide is counted,
\* in fast and in precise mode, whatever the thresholds, the sample interval
\* and the playback speed.
C1_StaticVideoOneSlide ==
    video.kind = "static" => saved_count <= 1

\* C2: between two consecutive saves (new slide or replacement) of a session
\* at least 2.0 / playback_speed seconds of video time pass: the frame time
\* of the later save minus that of the earlier one is not below it.
C2_MinimumInterval ==
    (Accepted /\ event.why # "first")
        => event.since * playback_speed >= 20 * fps

\* C2 witness: a second save, exactly 2.0 / playback_speed seconds after
\* the first frame was saved
C2_Witness ==
    /\ Accepted
    /\ event.why = "changed"
    /\ event.since * playback_speed = 20 * fps

\* C3: a sampled frame other than the first is saved only when the
\* stability counter has reached min_stable_frames at that frame, so the
\* frame is similar (above stability_threshold) to the sample before it: a
\* sample that differs from its neighbours is not itself saved.
C3_StabilityGate ==
    (Accepted /\ event.why # "first")
        => /\ event.run >= min_stable_frames
           /\ event.run >= 1

\* C3 witness: with two stable samples required, a frame is saved at the
\* second stable sample
C3_Witness ==
    /\ Accepted
    /\ event.why = "changed"
    /\ min_stable_frames = 2
    /\ event.run = 2

\* a frame was saved in this step
SavedInStep == last_saved_time' # last_saved_time

C4_Step ==
    /\ saved_count' \in {saved_count, saved_count + 1}
    /\ saved_count' = saved_count + 1
         => /\ event'.kind = "new"
            /\ event'.index = saved_count
            /\ disk' = Append(disk, prev_frame')
    /\ (SavedInStep /\ saved_count' = saved_count)
         => /\ event'.kind = "replace"
            /\ event'.index \in 0 .. (saved_count - 1)
            /\ disk' = [disk EXCEPT ![event'.index + 1] = prev_frame']
    /\ ~SavedInStep => (disk' = disk /\ saved_count' = saved_count)

\* C4: new slides get the indices 0, 1, 2, ... in this order, one file
\* each, and no index is given twice; a replacement writes one file, leaves
\* the count of saved slides as it is, and uses an index given earlier.
C4_SlideIndices == [][C4_Step]_vars

\* C4 witness: a replacement in a session that has saved two slides
C4_Witness ==
    /\ event.kind = "replace"
    /\ saved_count >= 2

\* the positions (from 1) of saved_slides that the global scan compares
Window ==
    (Len(saved_slides) - max_compare_slides(saved_slides) + 1)
        .. Len(saved_slides)

\* the similarity the scan computes between entry i and frame f
ScanSimilarity(i, f) ==
    fast_similarity(saved_slides[i], f, use_fast_mode, crop_region.w,
                    crop_region.h)

\* entry i is more than 0.85 similar to frame f
Near(i, f) ==
    ~ScanSimilarity(i, f).raised /\ ScanSimilarity(i, f).value > ReplaceSimilarity

\* entry i is more than 0.95 similar to frame f
NearlySame(i, f) ==
    ~ScanSimilarity(i, f).raised
        /\ ScanSimilarity(i, f).value > DuplicateSimilarity

\* entry i is a replacement target for frame f
Superseded(i, f) ==
    /\ Near(i, f)
    /\ ContentIncreased(f, last_saved_slide)
    /\ MoreContentThan(f, saved_slides[i])

C5_Original_Step ==
    (/\ SavedInStep
     /\ saved_count >= 1
     /\ ContentIncreased(prev_frame', last_saved_slide)
     /\ \E i \in Window : Near(i, prev_frame')
     /\ \A i \in Window : ~NearlySame(i, prev_frame'))
        => /\ event'.kind = "replace"
           /\ saved_count' = saved_count
           /\ \E i \in Window :
                 Near(i, prev_frame') /\ event'.index = origin[i]

C5_Step ==
    (/\ SavedInStep
     /\ saved_count >= 1
     /\ \E i \in Window : Superseded(i, prev_frame'))
        => /\ event'.kind = "replace"
           /\ saved_count' = saved_count
           /\ Superseded(event'.slot + 1, prev_frame')
           /\ \A i \in Window :
                 Superseded(i, prev_frame') => i >= event'.slot + 1
           /\ event'.index = event'.slot
           /\ saved_slides' =
                 [saved_slides EXCEPT ![event'.slot + 1] = prev_frame']

C6_ReplacesOwnFile ==
    event.kind = "replace" => event.index = origin[event.slot + 1]

\* the GUI's initial settings
DefaultSettings ==
    /\ similarity_threshold = 850
    /\ stability_threshold = 960
    /\ sample_interval = 10
    /\ playback_speed = 10

\* C7: a video showing A for 3 s, B for 3 s (similarity 0.5) and A again,
\* sampled whole at 2 frames per second with the default settings and no
\* crop, ends with exactly 2 saved slides.
C7_ABAGivesTwoSlides ==
    (/\ video.kind = "aba"
     /\ DefaultSettings
     /\ fps = 2
     /\ crop_region = Region(0, 0, FrameWidth, FrameHeight)
     /\ Finished)
        => saved_count = 2

\* the first entry of the scan window that is a replacement target or
\* nearly the same as frame f, or 0
FirstMatch(f) ==
    LET hits == {i \in Window : Superseded(i, f) \/ NearlySame(i, f)}
    IN  IF hits = {} THEN 0
        ELSE CHOOSE i \in hits : \A j \in hits : i <= j

C8_Step ==
    (/\ frame_idx' # frame_idx
     /\ event'.why \in {"changed", "duplicate", "similar"}
     /\ FirstMatch(prev_frame') # 0
     /\ ~Superseded(FirstMatch(prev_frame'), prev_frame'))
        => /\ event'.kind = "reject"
           /\ event'.why = "duplicate"
           /\ disk' = disk

\* C8: a frame that reaches the global scan and whose first matching window
\* entry is more than 0.95 similar to it without being a replacement target
\* is a duplicate: it is rejected and nothing is written.
C8_NearCopyIsDuplicate == [][C8_Step]_vars

\* C9: saved_slides never holds more than 50 entries.
C9_HistoryWithinCap == Len(saved_slides) <= HistoryCap

\* C10: once stop_capture has asked for a stop, the next check at the head
\* of the loop ends the session as stopped, and no further frame is read.
C10_StopObserved ==
    [][(stop_capture_flag /\ pc = "head")
          => (pc' = "done" /\ result' = "stopped")]_vars

\* the three ways a session can end
Endings == {"completed", "stopped", "error"}

\* C11: a session that has ended reports one of three outcomes the caller
\* can tell apart: completed with the slide count, stopped by request with
\* the slide count, aborted with an error reason.
C11_ThreeOutcomes ==
    pc = "done" =>
      /\ result \in Endings
      /\ result \in {"completed", "stopped"} =>
           ReturnValue(result, saved_count).slide_count = {saved_count}
      /\ result = "error" => ReturnValue(result, saved_count).message # ""
      /\ \A other \in Endings \ {result} :
           capture_completed(ReturnValue(other, saved_count)).status #
             capture_completed(ReturnValue(result, saved_count)).status

\* the last evaluated frame reached the comparisons and was not written
\* over an older slide
ComparedAsNew == event.why \in {"changed", "similar"} /\ event.kind # "replace"

\* C12: a stable frame past the minimum interval that is neither a
\* duplicate nor a replacement is saved as a new slide exactly when its
\* similarity to the previous frame is below similarity_threshold, or its
\* similarity to the last saved slide is, or its content increased; one of
\* the two similarities being below is enough, none of the three rejects.
C12_NewSlideCondition ==
    ComparedAsNew =>
      (event.kind = "new" <=>
         \/ event.sim_prev < similarity_threshold
         \/ event.sim_saved < similarity_threshold
         \/ event.grew)

\* a frame saved as a new slide on the strength of the last saved slide
\* alone: it is still close to the previous frame and has no more content
C12_Witness ==
    /\ ComparedAsNew
    /\ event.kind = "new"
    /\ event.sim_prev >= similarity_threshold
    /\ event.sim_saved < similarity_threshold
    /\ ~event.grew

\* the step evaluates a frame as far as the global scan
ScanStep ==
    /\ frame_idx' # frame_idx
    /\ event'.why \in {"changed", "duplicate", "similar"}

C13_Step ==
    ScanStep =>
      /\ event'.kind = "replace" =>
           /\ FirstMatch(prev_frame') # 0
           /\ event'.slot + 1 = FirstMatch(prev_frame')
      /\ event'.why = "duplicate" =>
           /\ FirstMatch(prev_frame') # 0
           /\ ~Superseded(FirstMatch(prev_frame'), prev_frame')
      /\ FirstMatch(prev_frame') # 0 =>
           \/ event'.kind = "replace"
           \/ event'.why = "duplicate"

Newest == {i \in 1..Len(saved_slides) : i > Len(saved_slides) - CompareWindow}

C14_Step ==
    ScanStep =>
      /\ event'.kind = "replace" =>
           /\ event'.slot + 1 \in Newest
           /\ \A i \in (1..Len(saved_slides)) \ Newest :
                saved_slides'[i] = saved_slides[i]
      /\ event'.why = "duplicate" =>
           \E i \in Newest : NearlySame(i, prev_frame')

\* C14: a frame is compared with the min(20, n) newest entries of the
\* history of n slides and with no other: an older entry is never written
\* over by a replacement and never makes a frame a duplicate.
C14_ScanWindow == [][C14_Step]_vars

\* a frame that is the very image of a history entry older than the window
\* has been saved as a new slide
C14_Witness ==
    /\ event.kind = "new"
    /\ event.why = "changed"
    /\ \E i \in 1..(Len(saved_slides) - 1 - CompareWindow) :
         saved_slides[i] = prev_frame

\* round(n / d) as Python rounds: to the nearest integer, a half to the
\* even one
RoundDiv(n, d) ==
    LET q == n \div d
        r == n % d
    IN  IF 2 * r < d THEN q
        ELSE IF 2 * r > d THEN q + 1
        ELSE IF q % 2 = 0 THEN q ELSE q + 1

\* C15: the number of consecutive stable samples a frame needs to count as
\* stable is max(1, round(fps * 0.5 / sample_interval)), at every frame
\* rate and every sample interval (sample_interval is in tenths of a
\* second here, so fps * 0.5 / sample_interval is 5 * fps over it).
C15_MinStableSamples ==
    min_stable_frames = Max(1, RoundDiv(5 * fps, sample_interval))

\* the step saves the frame it evaluates, as a new slide or a replacement
SaveStep == frame_idx' # frame_idx /\ event'.kind \in {"new", "replace"}

C16_Step ==
    SaveStep =>
      /\ last_saved_time' = frame_idx
      /\ last_saved_slide' = prev_frame'
      /\ stable_frames' = 0
      /\ saved_count >= 1 =>
           /\ event'.run >= min_stable_frames
           /\ event'.run * frame_step <= frame_idx - last_saved_time

\* C16: every save, of a new slide or of a replacement, sets the time of
\* the last save to the time of the frame, the last saved slide to the
\* frame and the stability counter to 0; the run of stable samples that
\* lets the next frame through is therefore made of samples taken after
\* that save only.
C16_SaveResets == [][C16_Step]_vars

\* a second save, after a run of stable samples counted from the first
C16_Witness ==
    /\ saved_count >= 2
    /\ event.kind \in {"new", "replace"}
    /\ event.run >= 1
    /\ stable_frames = 0
    /\ last_saved_slide = prev_frame

C17_Step ==
    /\ last_saved_time' >= last_saved_time
    /\ frame_idx' >= frame_idx
    /\ frame_idx' # frame_idx =>
         /\ frame_idx' > frame_idx
         /\ last_saved_time' \in {last_saved_time, frame_idx}
         /\ last_saved_time <= frame_idx

\* C17: the time of the last save never goes back during a session: the
\* frames are evaluated in strictly increasing order of frame index, and a
\* save sets the time to that of the frame being evaluated.
C17_SaveTimeMonotone == [][C17_Step]_vars

\* the time of the last save has moved on from that of the first frame, by
\* a replacement
C17_Witness ==
    /\ event.kind = "replace"
    /\ last_saved_time > 0
    /\ last_saved_time + frame_step = frame_idx

\* C18: the first frame read in a session counts as stable and is saved as
\* slide 0 whatever the thresholds, the minimum interval and the mode: once
\* it has been evaluated one slide is counted, one file is written and the
\* history holds that frame and nothing else.
C18_FirstFrameSaved ==
    /\ event.kind # "none" => saved_count >= 1
    /\ event.why = "first" <=>
         (event.kind \notin {"none", "error"} /\ frame_idx = frame_step)
    /\ event.why = "first" =>
         /\ event.kind = "new"
         /\ event.index = 0
         /\ saved_count = 1
         /\ saved_slides = <<prev_frame>>
         /\ disk = <<prev_frame>>

C19_Step ==
    (frame_idx' # frame_idx /\ prev_frame # NoFrame) =>
      (event'.run >= 1 <=>
         /\ crop_region.w >= WinSize
         /\ crop_region.h >= WinSize
         /\ SsimFull(prev_frame, prev_frame') > stability_threshold)

\* C19: the stability counter goes up on a pair of consecutive samples
\* exactly when their full-resolution structural similarity is above
\* stability_threshold (the counter is 0 after any other pair); the pairs
\* that count are the same with use_fast_mode on and off.
C19_StabilityIsPrecise == [][C19_Step]_vars

\* in fast mode a pair has counted as stable although fast_similarity puts
\* it at or below stability_threshold
C19_Witness ==
    /\ use_fast_mode
    /\ event.run >= 1
    /\ event.sim_prev >= 0
    /\ event.sim_prev <= stability_threshold

\* C20: whatever region is asked for and whatever the size of the frame,
\* the clamped region has 0 <= x, 0 <= y, x + width <= frame width and
\* y + height <= frame height, and cropping the frame with it does not
\* raise: the slice is taken, and is the w by h rectangle itself when
\* neither is negative.
C20_ClampedRegion ==
    /\ pc \in {"clamped", "cropped"} =>
         /\ 0 <= crop_region.x
         /\ 0 <= crop_region.y
         /\ crop_region.x + crop_region.w <= frame_shape.w
         /\ crop_region.y + crop_region.h <= frame_shape.h
    /\ pc = "cropped" =>
         /\ cropped_frame # NoShape
         /\ cropped_frame.w <= frame_shape.w
         /\ cropped_frame.h <= frame_shape.h
         /\ (crop_region.w >= 0 /\ crop_region.h >= 0) =>
              cropped_frame = Shape(crop_region.w, crop_region.h)

\* a region that reached beyond the frame has been brought back into it and
\* the frame has been cropped with it
C20_Witness ==
    /\ pc = "cropped"
    /\ crop_region.x + crop_region.w = frame_shape.w
    /\ crop_region.y + crop_region.h = frame_shape.h
    /\ crop_region.x > 0
    /\ cropped_frame = Shape(crop_region.w, crop_region.h)
    /\ cropped_frame.w > 0

\* the smallest side of a crop region that is a valid configuration
MinCropSide == 5

\* C21: a crop region that is narrower or lower than 5 px once clamped (an
\* empty one included) is a configuration error: the session ends with an
\* error before a frame is evaluated, so the loop never gets past its
\* first frame and no slide is ever saved.
C21_InvalidCropRejected ==
    (crop_region.w < MinCropSide \/ crop_region.h < MinCropSide) =>
      /\ frame_idx = 0
      /\ saved_count = 0
      /\ disk = <<>>

\* h * 0.8, in thousandths
Scaled(hist_corr) == (hist_corr * 8) \div 10

\* a structural similarity can be computed on images of this size
Computable(w, h) == w >= WinSize /\ h >= WinSize

\* C22: in fast mode fast_similarity gives h * 0.8 when the correlation h
\* of the histograms is below 0.7; otherwise the full-resolution structural
\* similarity when the quarter-size one is above 0.9 and the quarter-size
\* one when it is not, and h * 0.8 when a structural similarity cannot be
\* computed.  With use_fast false it gives the full-resolution structural
\* similarity.  (Here on last_saved_slide and the frame just compared.)
C22_FastSimilarity ==
    (pc = "compared" /\ event.kind = "compared"
       /\ last_saved_slide # NoFrame) =>
      LET w == crop_region.w
          h == crop_region.h
          hist_corr == compareHist(last_saved_slide, prev_frame)
          small == SsimQuarter(last_saved_slide, prev_frame)
          full == SsimFull(last_saved_slide, prev_frame)
      IN  event.sim_saved =
            IF ~use_fast_mode THEN full
            ELSE IF hist_corr < HistCut THEN Scaled(hist_corr)
            ELSE IF ~Computable(w \div 4, h \div 4) THEN Scaled(hist_corr)
            ELSE IF small <= SmallCut THEN small
            ELSE IF ~Computable(w, h) THEN Scaled(hist_corr)
            ELSE full

\* fast mode has returned the full-resolution value of a pair whose
\* quarter-size value is another, above 0.9
C22_Witness ==
    /\ pc = "compared"
    /\ use_fast_mode
    /\ event.kind = "compared"
    /\ last_saved_slide # NoFrame
    /\ SsimQuarter(last_saved_slide, prev_frame) > SmallCut
    /\ SsimQuarter(last_saved_slide, prev_frame) #
         SsimFull(last_saved_slide, prev_frame)
    /\ event.sim_saved = SsimFull(last_saved_slide, prev_frame)

\* what the loop reads off a similarity v: below the threshold (different
\* enough to save), above 0.85, above 0.95 (a duplicate)
Verdict(v) ==
    <<v < similarity_threshold, v > ReplaceSimilarity,
      v > DuplicateSimilarity>>

\* C23: on a pair of images whose full structural similarity is well above
\* 0.95 (here 1.0: the same image) or well below it (here 0.5 at most: two
\* different slides), the frame gets the same verdict in fast mode and in
\* precise mode, whenever both modes give a value.
C23_ModesAgree ==
    (pc = "compared" /\ event.kind = "compared"
       /\ last_saved_slide # NoFrame
       /\ \/ SsimFull(last_saved_slide, prev_frame) = 1000
          \/ SsimFull(last_saved_slide, prev_frame) <= 500) =>
      LET other == fast_similarity(last_saved_slide, prev_frame,
                                   ~use_fast_mode, crop_region.w,
                                   crop_region.h)
      IN  ~other.raised => Verdict(event.sim_saved) = Verdict(other.value)

\* in precise mode every structural similarity of the session fails: the
\* crop has a side shorter than the window (and is not empty)
PreciseFails ==
    /\ ~use_fast_mode
    /\ crop_region.w > 0
    /\ crop_region.h > 0
    /\ ~Computable(crop_region.w, crop_region.h)

C24_Step ==
    (/\ PreciseFails
     /\ pc = "read"
     /\ pc' # "read"
     /\ prev_frame # NoFrame
     /\ frame_idx < frame_count) =>
       /\ result' # "error"
       /\ (/\ frame_idx' # frame_idx
           /\ prev_frame' = prev_frame
           /\ min_stable_frames = 1
           /\ ~TooSoon(frame_idx, last_saved_time)
           /\ prev_frame'.slide # last_saved_slide.slide) =>
            event'.kind \in {"new", "replace"}

\* C24: in precise mode a structural similarity that fails on a sampled
\* frame is taken as "not stable / not similar" on the spot: the session
\* goes on to the next sample without an error, and the frame is captured
\* rather than dropped when it is a real change: another slide than the
\* last saved one, shown unchanged for a second sample in a row, one
\* stable pair being enough and the minimum interval being over.
C24_FailsTowardCapture == [][C24_Step]_vars

\* C25: content_increased is true exactly when the count of pixels brighter
\* than 20 of the frame, divided by that of the last saved slide plus 1, is
\* above 1.2; it is false when no slide has been saved yet.
C25_ContentIncreased ==
    (pc = "compared" /\ event.kind = "compared") =>
      (event.grew <=>
         /\ last_saved_slide # NoFrame
         /\ 10 * count_nonzero(prev_frame) >
              12 * (count_nonzero(last_saved_slide) + 1))

\* a frame with 1.21 times the content of the last saved slide has been
\* compared and its content has not increased: 121 / 101 is under 1.2
C25_Witness ==
    /\ pc = "compared"
    /\ event.kind = "compared"
    /\ last_saved_slide # NoFrame
    /\ 100 * count_nonzero(prev_frame) = 121 * count_nonzero(last_saved_slide)
    /\ ~event.grew

\* the capture_screen threads that are in the body of their loop
Evaluating == {i \in DOMAIN live.threads : live.threads[i].pc = "frame"}

\* C26: in the screen mode of Video2PPT, whatever the sequence of start,
\* pause, resume and stop, at most one capture_screen thread is evaluating
\* frames at a time.
C26_OneCaptureThread == Cardinality(Evaluating) <= 1

\* C27: once stop_capture has run, no frame is evaluated and no slide is
\* saved any more: slide_count stays what stop_capture showed.
C27_StopIsFinal ==
    live.stopped => /\ ~live.late
                    /\ live.slide_count = live.reported

C28_Step ==
    (frame_idx' # frame_idx) =>
      stable_frames' =
        IF event'.kind \in {"new", "replace"} THEN 0
        ELSE IF ~Computable(crop_region.w, crop_region.h) THEN 0
        ELSE IF SsimFull(prev_frame, prev_frame') > stability_threshold
        THEN stable_frames + 1
        ELSE 0

\* C28: after each sampled frame the stability counter is the number of
\* consecutive pairs of samples, up to that frame, more similar than
\* stability_threshold since it was last reset: a pair at or below the
\* threshold, a comparison that fails and every save put it at 0, any other
\* frame adds exactly 1 to it.
C28_StabilityCounter == [][C28_Step]_vars

\* the counter has gone up over three pairs in a row, none of the frames
\* being saved
C28_Witness ==
    /\ stable_frames >= 3
    /\ event.kind = "reject"
    /\ event.run = stable_frames

C29_Step ==
    (frame_idx' # frame_idx /\ event'.kind = "reject") =>
      /\ event'.why \in {"unstable", "interval", "duplicate", "similar"}
      /\ UNCHANGED <<saved_count, saved_slides, last_saved_slide,
                     last_saved_time, disk>>
      /\ prev_frame' \in FrameAt(video, frame_idx)
      /\ frame_idx' = frame_idx + frame_step
      /\ stable_frames' = event'.run

\* C29: a sampled frame that is rejected, as unstable, inside the minimum
\* interval, duplicate or not different enough, leaves saved_count, the
\* history, the last saved slide and the time of the last save as they
\* were and writes no file; the previous frame becomes that frame, the
\* frame index moves on by one step and the stability counter is that of
\* the stability check.
C29_RejectLeavesState == [][C29_Step]_vars

\* a frame has been rejected as a duplicate while another slide than the
\* last saved one: the last saved slide is still the older one
C29_Witness ==
    /\ event.kind = "reject"
    /\ event.why = "duplicate"
    /\ last_saved_slide # prev_frame
    /\ saved_count >= 1

\* entries i and j of the history are near-identical images
NearIdentical(i, j) ==
    SsimFull(saved_slides[i], saved_slides[j]) > DuplicateSimilarity

C31_ReplacementIndexValid ==
    pc = "read" =>
      \A gray_frame \in FrameAt(video, frame_idx) :
        LET e == Evaluate(gray_frame)
        IN  (e.save_condition /\ IsReplacement(e)) =>
              /\ 0 <= e.should_replace
              /\ e.should_replace < Len(saved_slides)
              /\ e.should_replace >= Len(saved_slides) - CompareWindow

\* the newest entry of a history at its greatest length has been replaced
C31_Witness ==
    /\ event.kind = "replace"
    /\ Len(saved_slides) = HistoryCap + 1
    /\ event.slot = Len(saved_slides) - 1

\* the target the scan of the frame just read selects in the history as it
\* was before the step, -1 when it selects none
ScanTarget ==
    ScanFrom(1, saved_slides, prev_frame', event'.grew, crop_region.w,
             crop_region.h).should_replace

C32_Step ==
    (frame_idx' # frame_idx) =>
      /\ event'.kind = "replace" =>
           /\ ScanTarget >= 0
           /\ event'.slot = ScanTarget
      /\ (event'.kind = "new" /\ event'.why # "first") =>
           /\ ScanTarget = -1
           /\ Len(disk') = Len(disk) + 1
           /\ \A i \in 1..Len(disk) : disk'[i] = disk[i]

\* C32: a frame overwrites a slide only if the global scan of that very
\* frame selected the slide as its replacement target; a should_replace
\* left over from an earlier iteration never makes a later accepted frame
\* overwrite a slide: that frame is saved as a new slide and every file
\* written before stays as it was.
C32_NoStaleReplacement == [][C32_Step]_vars

\* a replacement target is left over from an earlier iteration while a
\* later frame has been dealt with without its scan being run
C32_Witness ==
    /\ should_replace >= 0
    /\ event.kind = "reject"
    /\ event.why \in {"unstable", "interval"}

\* the frame just evaluated got as far as the comparisons of the decision
\* step
Decided == event.why \in {"changed", "duplicate", "similar"}

\* C33: in precise mode with stability_threshold >= similarity_threshold
\* every frame that reaches the decision step has a similarity to the
\* previous frame above similarity_threshold, so a frame accepted after the
\* first one is accepted because its similarity to the last saved slide is
\* below similarity_threshold, because its content increased or because it
\* replaces a slide, and never on the strength of the previous frame.
C33_PreviousFrameNeverDecides ==
    (/\ ~use_fast_mode
     /\ stability_threshold >= similarity_threshold
     /\ Decided)
        => /\ event.sim_prev > similarity_threshold
           /\ Accepted =>
                \/ event.sim_saved < similarity_threshold
                \/ event.grew
                \/ event.kind = "replace"

\* in precise mode a frame has been saved as a new slide because it shows
\* more than the last saved slide, though it is close to that slide and to
\* the previous frame
C33_Witness ==
    /\ ~use_fast_mode
    /\ stability_threshold >= similarity_threshold
    /\ event.kind = "new"
    /\ Decided
    /\ event.sim_prev > similarity_threshold
    /\ event.sim_saved >= similarity_threshold
    /\ event.grew

C34_Step ==
    /\ (pc = "read" /\ pc' = "head") =>
         /\ frame_step >= 1
         /\ frame_idx' = frame_idx + frame_step
         /\ frame_idx' < frame_count
    /\ (pc = "read" /\ result' = "completed") =>
         \/ frame_idx' = frame_idx + frame_step /\ frame_idx' >= frame_count
         \/ frame_idx' = frame_idx

\* C34: the loop of capture_slides_from_video ends for every video with a
\* finite frame count and every positive fps, sample_interval and
\* playback_speed, a stop being asked for or not: each iteration that goes
\* round moves the frame index on by frame_step >= 1, and the loop is left
\* when the index reaches the frame count or when a read gives no frame.
C34_LoopTerminates == [][C34_Step]_vars /\ <>(pc = "done")

\* the deck video has been sampled to its end without a stop being asked
\* for
C34_Witness ==
    /\ video.kind = "deck"
    /\ result = "completed"
    /\ frame_idx >= frame_count
    /\ frame_idx = (DeckSlides * DeckDwell + DeckDwell) * frame_step
    /\ ~stop_capture_flag

\* C35: in BrowserCapture and in the file mode of Video2PPT, whatever the
\* sequence of start, pause, resume and stop, at most one capture_loop /
\* process_video callback is waiting in Tk's queue at any time, so that
\* frames are looked at no more than once per interval.
C35_OneCallbackChain == live.pending <= 1

\* C36: in ChromeCapture, once pause_capture has been called twice during
\* a running capture (a pause, then a resume), frames are looked at again:
\* a change of the screen after the resume is saved in the end, unless the
\* capture has been stopped in the meantime.
C36_ResumeResumes ==
    (live.pauses = 2 /\ live.changed /\ live.buttons = "capturing")
        ~> (live.saved \/ live.buttons = "idle")

\* the number of capture_loop threads that are inside the body of the loop
InBody(l) == Cardinality({i \in DOMAIN l.threads : l.threads[i] = "frame"})

\* a thread goes through the body of the loop on a frame it compares with
\* previous_frame
ComparesFrame == InBody(live') < InBody(live) /\ live.previous_frame # -1

\* the time since the last saved slide is over the timeout
TimedOut ==
    /\ live.inactivity_timeout > 0
    /\ live.now - live.last_change_time > live.inactivity_timeout

C37_Step ==
    /\ live'.after_stop > live.after_stop =>
         /\ ComparesFrame
         /\ live.auto_stop_enabled
         /\ TimedOut
    /\ (ComparesFrame /\ live.auto_stop_enabled /\ TimedOut) =>
         /\ live'.after_stop = live.after_stop + 1
         /\ Len(live'.threads) = Len(live.threads) - 1
         /\ live'.slide_count = live.slide_count
    /\ live'.slide_count > live.slide_count =>
         /\ live'.last_change_time = live.now
         /\ ~(live'.now - live'.last_change_time
                > live'.inactivity_timeout)

\* C37: the capture loop of ChromeCapture stops of its own accord only
\* when the auto stop is enabled, inactivity_timeout > 0 and more than
\* inactivity_timeout has passed since the last saved slide; whenever that
\* is so at a frame the loop compares, the loop ends and stop_capture is
\* handed to root.after; every saved slide starts the period anew.
C37_AutoStop == [][C37_Step]_vars

\* the loop has stopped of its own accord after a second slide had started
\* the period anew, and the stop_capture it asked for has run
C37_Witness ==
    /\ live.auto_stopped
    /\ live.slide_count >= 2
    /\ live.after_stop = 0
    /\ live.buttons = "idle"
    /\ ~live.capture_running

\* the step reads a frame that capture_slides samples
QuickSampled == frame_idx' = frame_idx + 1 /\ frame_idx' % sample_interval = 0

\* the step writes one more slide file
QuickSaved == Len(disk') = Len(disk) + 1

C38_Step ==
    /\ QuickSampled =>
         /\ QuickSaved <=>
              \/ frame_idx' = sample_interval
              \/ SsimFull(prev_frame', disk[Len(disk)])
                   < similarity_threshold
         /\ QuickSaved =>
              /\ disk' = Append(disk, prev_frame')
              /\ event'.index = Len(disk)
              /\ last_saved_slide' = prev_frame'
    /\ ~QuickSaved =>
         /\ last_saved_slide' = last_saved_slide
         /\ disk' = disk
    /\ saved_count' = Len(disk')
    /\ result' = "returned" => event'.index = Len(disk')

\* C38: in quick_start.capture_slides a sampled frame is saved if and only
\* if it is the first sampled frame or its structural similarity to the
\* slide saved last is below threshold; last_frame changes only when a
\* slide is saved; the count returned is the number of slides saved, and
\* the slides carry the indices 0 to count - 1.
C38_QuickStart == [][C38_Step]_vars

\* the function has returned 2 after sampling every frame of the video, of
\* which it saved the first and one other and rejected two
C38_Witness ==
    /\ result = "returned"
    /\ event.index = 2
    /\ Len(disk) = 2
    /\ sample_interval = 1
    /\ frame_idx = MaxQuickFrames
    /\ prev_frame # last_saved_slide

====
